---- MODULE Spec2Model ----
(***************************************************************************)
(* State machine of the SaIdHolidayChecker Lightning web component         *)
(* (saIDHolidayChecker.js).  The component's tracked fields are the        *)
(* variables; the environment is the browser's timer table, the Apex calls *)
(* in flight and the queue of promise continuations.  Each action is one   *)
(* run-to-completion piece of JavaScript: a handler up to its first await, *)
(* or the continuation that runs when an awaited call settles.             *)
(***************************************************************************)
EXTENDS Integers, Sequences, FiniteSets, Bags, TLC

(***************************************************************************)
(* Bounds of the model.                                                    *)
(***************************************************************************)
MaxCalls == 2         \* remote calls in flight, of all three kinds together
MaxTimers == 2        \* entries of the timer table
MaxSwi == 1           \* searchWithId continuations queued
TickUnit == 500       \* granularity of the passage of time

(***************************************************************************)
(* Program constants.                                                      *)
(***************************************************************************)
DebounceDelay == 500
MinValidateLen == 10
FullLen == 13

MsgTooShort == "ID number must be 13 digits long"
MsgValid == "Valid SA ID Number (check mark)"
MsgInvalidFormat == "Invalid SA ID Number format"
MsgValidationError == "Validation error occurred"
MsgInvalidId == "Invalid SA ID Number"
MsgUnexpected == "An unexpected error occurred. Please try again."
MsgComponent == "A component error occurred. Please refresh the page."
MsgServer == "server supplied message"

(***************************************************************************)
(* Input texts: strings are sequences of characters (digits here).         *)
(***************************************************************************)
TextEmpty == <<>>
Text9 == <<8,0,0,1,0,1,4,8,0>>
Text12 == <<8,0,0,1,0,1,4,8,0,0,0,8>>
Text13 == <<8,0,0,1,0,1,4,8,0,0,0,8,6>>
Texts == {TextEmpty, Text9, Text12, Text13}
ApiTexts == {Text13}

(***************************************************************************)
(* Dates.  A date string "YYYY-MM-DD" is <<YYYY, MM, DD>> with MM and DD   *)
(* the two-character renderings (pairs of digits).                         *)
(***************************************************************************)
Pad2(n) == <<n \div 10, n % 10>>
DateStr(y, m, d) == <<y, Pad2(m), Pad2(d)>>
NoDate == <<>>
Unpad(p) == p[1] * 10 + p[2]

IsLeap(y) == (y % 4 = 0 /\ y % 100 # 0) \/ y % 400 = 0
DaysIn(y, m) ==
    IF m = 2 THEN (IF IsLeap(y) THEN 29 ELSE 28)
    ELSE IF m \in {4, 6, 9, 11} THEN 30 ELSE 31

\* new Date("YYYY-MM-DD") is midnight UTC; getMonth()/getDate() read it in
\* the local zone, which west of Greenwich is still the previous day.
LocalDate(s, west) ==
    LET y == s[1]
        m == Unpad(s[2])
        d == Unpad(s[3])
    IN  IF ~west THEN [year |-> y, month |-> m, day |-> d]
        ELSE IF d > 1 THEN [year |-> y, month |-> m, day |-> d - 1]
        ELSE IF m > 1 THEN [year |-> y, month |-> m - 1, day |-> DaysIn(y, m - 1)]
        ELSE [year |-> y - 1, month |-> 12, day |-> 31]

(***************************************************************************)
(* Remote data.  An absent (undefined) field is 0, "" or <<>>, which are   *)
(* falsy in JavaScript just as undefined is.                               *)
(***************************************************************************)
EmptyDetails == [birthYear |-> 0, dateOfBirth |-> NoDate]
Details1980 == [birthYear |-> 1980, dateOfBirth |-> DateStr(1980, 1, 1)]
Details1990 == [birthYear |-> 1990, dateOfBirth |-> DateStr(1990, 12, 16)]

EmptyResponse == [success |-> FALSE, holidays |-> <<>>]
Holidays1980 == [success |-> TRUE,
                 holidays |-> <<DateStr(1980, 1, 1), DateStr(1980, 12, 16)>>]
Holidays1990 == [success |-> TRUE,
                 holidays |-> <<DateStr(1990, 1, 1), DateStr(1990, 12, 16)>>]
HolidaysFailed == [success |-> FALSE, holidays |-> <<>>]

\* What validateAndSearch can resolve with.
SearchResults ==
    { [isValid |-> FALSE, errorMessage |-> "", idDetails |-> EmptyDetails,
       holidayResponse |-> EmptyResponse, searchCount |-> 0,
       formattedIdNumber |-> <<>>],
      [isValid |-> FALSE, errorMessage |-> MsgServer, idDetails |-> EmptyDetails,
       holidayResponse |-> EmptyResponse, searchCount |-> 0,
       formattedIdNumber |-> <<>>],
      [isValid |-> TRUE, errorMessage |-> "", idDetails |-> Details1980,
       holidayResponse |-> Holidays1980, searchCount |-> 1,
       formattedIdNumber |-> Text13],
      [isValid |-> TRUE, errorMessage |-> "", idDetails |-> Details1990,
       holidayResponse |-> EmptyResponse, searchCount |-> 2,
       formattedIdNumber |-> Text13],
      [isValid |-> TRUE, errorMessage |-> "", idDetails |-> EmptyDetails,
       holidayResponse |-> EmptyResponse, searchCount |-> 0,
       formattedIdNumber |-> <<>>] }

\* What getHolidaysForYear(year) can resolve with.
HolidayResponses(year) ==
    { HolidaysFailed,
      IF year = 1980 THEN Holidays1980 ELSE Holidays1990 }

Toast(title, message, variant) ==
    [title |-> title, message |-> message, variant |-> variant, mode |-> "pester"]
ToastSearchFailed == Toast("Error", "Failed to process your request", "error")
ToastHolidaysOk == Toast("Success!", "Holiday information retrieved", "success")
ToastHolidaysFailed == Toast("Error", "Failed to retrieve holidays", "error")
ToastComponent ==
    Toast("Component Error",
          "An unexpected error occurred. Please refresh the page.", "error")

VARIABLES
    \* fields of the component
    idNumber, isValidId, isValidating, isSearching, hasResults, hasError,
    errorMessage, validationMessage, searchResults, validationTimeout,
    idDetails, holidayResponse, searchCount, formattedIdNumber,
    holidaysOnBirthDate,
    \* environment
    timers,        \* pending setTimeout entries [handle, remaining] with
                   \* history: text, the text of the input event; nth, its
                   \* place in the burst (capped at 2); latest, no input
                   \* event came after it; clean, nothing else has
                   \* overwritten idNumber since
    fmtCalls,      \* bag of validateIdFormat calls in flight
    searchCalls,   \* number of validateAndSearch calls in flight
    holCalls,      \* bag of getHolidaysForYear calls in flight
    swiQueue,      \* searchWithId continuations queued as microtasks
    connected,     \* the component is in the DOM
    \* history
    lastOp,        \* the handler or continuation that ran last
    issued,        \* the remote calls the last step issued
    emitted,       \* the toast events the last step dispatched
    fired,         \* the timer entry the last step fired
    cancelled,     \* how many timer entries the last step cancelled
    searchesDone,  \* some validateAndSearch call has settled
    burstCalls,    \* format checks the current burst's timers started
    awaited,       \* per queued searchWithId continuation, the outcome of
                   \* the format check it awaited
    afterReset     \* the call that settled in the last step was in flight
                   \* when reset() ran, and nothing ran in between

fields == <<idNumber, isValidId, isValidating, isSearching, hasResults,
            hasError, errorMessage, validationMessage, searchResults,
            idDetails, holidayResponse, searchCount, formattedIdNumber,
            holidaysOnBirthDate>>
env == <<timers, fmtCalls, searchCalls, holCalls, swiQueue, connected>>
hist == <<lastOp, issued, emitted, fired, cancelled, searchesDone,
          burstCalls, awaited, afterReset>>
vars == <<fields, validationTimeout, env, hist>>

\* The remote calls in flight; a handler that would issue one more than
\* MaxCalls is not taken.
InFlight == BagCardinality(fmtCalls) + searchCalls + BagCardinality(holCalls)
MayCall == InFlight < MaxCalls

BagAdd(b, e) == b (+) SetToBag({e})
BagRemove(b, e) == b (-) SetToBag({e})

Init ==
    /\ idNumber = TextEmpty
    /\ isValidId = FALSE
    /\ isValidating = FALSE
    /\ isSearching = FALSE
    /\ hasResults = FALSE
    /\ hasError = FALSE
    /\ errorMessage = ""
    /\ validationMessage = ""
    /\ searchResults = EmptyDetails
    /\ validationTimeout = 0
    /\ idDetails = EmptyDetails
    /\ holidayResponse = EmptyResponse
    /\ searchCount = 0
    /\ formattedIdNumber = <<>>
    /\ holidaysOnBirthDate = <<>>
    /\ timers = {}
    /\ fmtCalls = EmptyBag
    /\ searchCalls = 0
    /\ holCalls = EmptyBag
    /\ swiQueue = 0
    /\ connected = TRUE
    /\ lastOp = "init"
    /\ issued = <<>>
    /\ emitted = <<>>
    /\ fired = <<>>
    /\ cancelled = 0
    /\ searchesDone = FALSE
    /\ burstCalls = 0
    /\ awaited = <<>>
    /\ afterReset = FALSE


Min(a, b) == IF a < b THEN a ELSE b
Max(a, b) == IF a > b THEN a ELSE b

\* No promise continuation is queued: a new task (a user event, a timer, a
\* call of the public API) starts only when the microtask queue is empty.
Quiet == swiQueue = 0

(***************************************************************************)
(* The timer table.                                                        *)
(***************************************************************************)
\* Variant: the handle is never cleared.
ClearedTimersNothing == timers

\* clearTimeout(this.validationTimeout) behind "if (this.validationTimeout)":
\* clearing a handle that has fired or was cleared already does nothing.
ClearedTimers ==
    IF validationTimeout # 0
    THEN {t \in timers : t.handle # validationTimeout}
    ELSE timers

\* setTimeout returns a handle that no pending timer has.  (A browser never
\* returns a number twice; a handle is only ever compared with the handles
\* of the pending timers, and the caller overwrites the one it holds, so
\* the least free number stands for "a new one".)
FreshHandle ==
    CHOOSE h \in 1..(MaxTimers + 1) :
        /\ \A t \in ClearedTimers : t.handle # h
        /\ \A g \in 1..(h - 1) : \E t \in ClearedTimers : t.handle = g

\* History: a later input event has been handled.
Superseded(ts) == {[t EXCEPT !.latest = FALSE] : t \in ts}

\* History: idNumber is overwritten by something other than an input event.
Overwritten(ts) == {[t EXCEPT !.clean = FALSE] : t \in ts}

\* The debounce window of the previous input is still open.
InBurst == \E t \in timers : t.remaining > 0

\* The place of a new input event in its burst.
BurstPlace ==
    IF InBurst THEN 2 ELSE 1

\* Variant: the threshold is one character too low.
NeedsValidationOffByOne(text) ==
    Len(text) > 0 /\ Len(text) >= MinValidateLen - 1

\* "this.idNumber && this.idNumber.length >= 10"
NeedsValidation(text) == Len(text) > 0 /\ Len(text) >= MinValidateLen

\* The validation message of the branch that does not schedule a check.
ShortMessage(text) ==
    IF Len(text) > 0 /\ Len(text) < FullLen THEN MsgTooShort ELSE ""

(***************************************************************************)
(* handleInputChange(event)                                                *)
(***************************************************************************)
HandleInputChange(text) ==
    /\ Quiet /\ connected
    /\ idNumber' = text
    /\ hasError' = FALSE
    /\ errorMessage' = ""
    /\ IF NeedsValidation(text)
       THEN /\ Cardinality(ClearedTimers) < MaxTimers
            /\ isValidating' = TRUE
            /\ validationTimeout' = FreshHandle
            /\ timers' = Superseded(ClearedTimers) \cup
                   {[handle |-> FreshHandle, remaining |-> DebounceDelay,
                     text |-> text, nth |-> BurstPlace, latest |-> TRUE,
                     clean |-> TRUE]}
            /\ validationMessage' = ""
            /\ UNCHANGED isValidId
       ELSE /\ isValidId' = FALSE
            /\ isValidating' = FALSE
            /\ validationMessage' = ShortMessage(text)
            /\ timers' = Superseded(ClearedTimers)
            /\ UNCHANGED validationTimeout
    /\ lastOp' = "handleInputChange"
    /\ issued' = <<>>
    /\ emitted' = <<>>
    /\ fired' = <<>>
    /\ cancelled' = Cardinality(timers \ ClearedTimers)
    /\ UNCHANGED <<searchesDone, awaited>>
    /\ afterReset' = FALSE
    /\ burstCalls' = IF InBurst THEN burstCalls ELSE 0
    /\ UNCHANGED <<isSearching, hasResults, searchResults, idDetails,
                   holidayResponse, searchCount, formattedIdNumber,
                   holidaysOnBirthDate, fmtCalls, searchCalls, holCalls,
                   swiQueue, connected>>

(***************************************************************************)
(* Time passes: every pending timer comes TickUnit closer to its expiry.   *)
(***************************************************************************)
Tick ==
    /\ Quiet
    /\ InBurst
    /\ timers' = {[t EXCEPT !.remaining = Max(0, t.remaining - TickUnit)] :
                       t \in timers}
    /\ lastOp' = "tick"
    /\ issued' = <<>>
    /\ emitted' = <<>>
    /\ fired' = <<>>
    /\ cancelled' = 0
    /\ UNCHANGED <<searchesDone, awaited>>
    /\ afterReset' = FALSE
    /\ UNCHANGED <<fields, validationTimeout, fmtCalls, searchCalls, holCalls,
                   swiQueue, connected, burstCalls>>

(***************************************************************************)
(* performRealtimeValidation() up to its await: the call it issues.        *)
(***************************************************************************)
FormatCall(api) == [idNumber |-> idNumber, api |-> api]
IssuedFormatCheck == <<[fn |-> "validateIdFormat", arg |-> idNumber]>>

\* Variant: the timer is periodic (setInterval) and stays armed.
RearmedTimers(t) ==
    (timers \ {t}) \cup {[t EXCEPT !.remaining = DebounceDelay]}

\* setTimeout is single-shot: the entry that fires leaves the table.
TimersAfterFire(t) == timers \ {t}

\* The debounce timer's callback.
TimerFire(t) ==
    /\ Quiet
    /\ t \in timers /\ t.remaining = 0
    /\ MayCall
    /\ timers' = TimersAfterFire(t)
    /\ fmtCalls' = BagAdd(fmtCalls, FormatCall(FALSE))
    /\ lastOp' = "timerFired"
    /\ issued' = IssuedFormatCheck
    /\ emitted' = <<>>
    /\ burstCalls' = Min(burstCalls + 1, 2)
    /\ fired' = <<t>>
    /\ cancelled' = 0
    /\ UNCHANGED <<searchesDone, awaited>>
    /\ afterReset' = FALSE
    /\ UNCHANGED <<fields, validationTimeout, searchCalls, holCalls, swiQueue,
                   connected>>

\* performRealtimeValidation() after its await.
ValidationMessageFor(outcome) ==
    IF outcome = "true" THEN MsgValid
    ELSE IF outcome = "false" THEN MsgInvalidFormat
    ELSE MsgValidationError

FormatDone(c, outcome) ==
    /\ BagIn(c, fmtCalls)
    /\ c.api => swiQueue < MaxSwi
    /\ fmtCalls' = BagRemove(fmtCalls, c)
    /\ isValidId' = (outcome = "true")
    /\ isValidating' = FALSE
    /\ validationMessage' = ValidationMessageFor(outcome)
    /\ swiQueue' = IF c.api THEN swiQueue + 1 ELSE swiQueue
    /\ awaited' = IF c.api THEN Append(awaited, outcome) ELSE awaited
    /\ lastOp' = IF outcome = "rejected" THEN "formatRejected" ELSE "formatResolved"
    /\ issued' = <<>>
    /\ emitted' = <<>>
    /\ fired' = <<>>
    /\ cancelled' = 0
    /\ UNCHANGED searchesDone
    /\ afterReset' = FALSE
    /\ UNCHANGED <<idNumber, isSearching, hasResults, hasError, errorMessage,
                   searchResults, validationTimeout, idDetails, holidayResponse,
                   searchCount, formattedIdNumber, holidaysOnBirthDate, timers,
                   searchCalls, holCalls, connected, burstCalls>>


(***************************************************************************)
(* handleSearch()                                                          *)
(***************************************************************************)
\* Variant: the guard does not look at isSearching.
SearchGuardIgnoringInFlight == isValidId

\* The negation of "if (!this.isValidId || this.isSearching) return;".
SearchGuard == isValidId /\ ~isSearching

IssuedSearch == <<[fn |-> "validateAndSearch", arg |-> idNumber]>>

\* handleSearch() up to its await, for a caller that leaves swiQueue alone.
\* A call that the guard turns away changes nothing.
SearchBody ==
    IF SearchGuard
    THEN /\ MayCall
         /\ isSearching' = TRUE
         /\ hasError' = FALSE
         /\ hasResults' = FALSE
         /\ errorMessage' = ""
         /\ searchCalls' = searchCalls + 1
         /\ lastOp' = "handleSearch"
         /\ issued' = IssuedSearch
    ELSE /\ lastOp' = "handleSearchNoop"
         /\ issued' = <<>>
         /\ UNCHANGED <<isSearching, hasError, hasResults, errorMessage,
                        searchCalls>>

SearchFrame ==
    /\ emitted' = <<>>
    /\ fired' = <<>>
    /\ cancelled' = 0
    /\ UNCHANGED searchesDone
    /\ afterReset' = FALSE
    /\ UNCHANGED <<idNumber, isValidId, isValidating, validationMessage,
                   searchResults, validationTimeout, idDetails,
                   holidayResponse, searchCount, formattedIdNumber,
                   holidaysOnBirthDate, timers, fmtCalls, holCalls, connected,
                   burstCalls>>

\* The search button, or any direct invocation.
HandleSearch ==
    /\ Quiet /\ connected
    /\ SearchBody
    /\ SearchFrame
    /\ UNCHANGED <<swiQueue, awaited>>

\* get isSearchDisabled()
IsSearchDisabled == ~isValidId \/ isSearching \/ isValidating

\* handleKeyDown(event) with event.key === 'Enter'; any other key, or a
\* failing condition, does nothing.
HandleKeyDown ==
    /\ Quiet /\ connected
    /\ isValidId /\ ~IsSearchDisabled
    /\ SearchBody
    /\ SearchFrame
    /\ UNCHANGED <<swiQueue, awaited>>

(***************************************************************************)
(* checkHolidaysOnBirthDate()                                              *)
(***************************************************************************)
CheckHolidaysOnBirthDate(details, response, west) ==
    IF details.dateOfBirth = NoDate \/ response.holidays = <<>>
    THEN <<>>
    ELSE LET birthDate == LocalDate(details.dateOfBirth, west)
             birthDateString == <<details.birthYear, Pad2(birthDate.month),
                                  Pad2(birthDate.day)>>
             Matches(holidayDate) == holidayDate = birthDateString
         IN  SelectSeq(response.holidays, Matches)

(***************************************************************************)
(* handleSearch() after its await: try / catch / finally.                  *)
(***************************************************************************)
\* Variant: isSearching is cleared after the try block, not in a finally,
\* so a rejection leaves it as it was.
IsSearchingAfterNoFinally(outcome) ==
    IF outcome = "rejected" THEN isSearching ELSE FALSE

\* Variant: a successful search stays open until its holiday retrieval is
\* done (the retrieval is awaited inside the try block).
IsSearchingAfterAwaitingHolidays(outcome) ==
    IF outcome = "valid" THEN isSearching ELSE FALSE

\* The "finally" block: isSearching once the call has settled.
IsSearchingAfter(outcome) == FALSE

\* Variant: a completion is dropped when its search is no longer the
\* current one (isSearching was cleared meanwhile).
HasResultsAfterUnlessStale(outcome) ==
    IF outcome = "valid" THEN isSearching ELSE hasResults

\* hasResults once the call has settled.
HasResultsAfter(outcome) == IF outcome = "valid" THEN TRUE ELSE hasResults

\* hasError once the call has settled.
HasErrorAfter(outcome) == IF outcome = "valid" THEN hasError ELSE TRUE

\* Variant: the server's message is taken as it is, without the default.
ErrorMessageAfterNoDefault(outcome, r) ==
    IF outcome = "valid" THEN errorMessage
    ELSE IF outcome = "invalid" THEN r.errorMessage
    ELSE MsgUnexpected

\* errorMessage once the call has settled with result r.
ErrorMessageAfter(outcome, r) ==
    IF outcome = "valid" THEN errorMessage
    ELSE IF outcome = "invalid"
         THEN (IF r.errorMessage # "" THEN r.errorMessage ELSE MsgInvalidId)
    ELSE MsgUnexpected

\* The toasts of the continuation.
SearchToasts(outcome) ==
    IF outcome = "rejected" THEN <<ToastSearchFailed>> ELSE <<>>

OutcomeOf(r) == IF r.isValid THEN "valid" ELSE "invalid"

\* handleRetryHolidays() up to its await, for identity record d.
HolidayCall(d) == [targetYear |-> d.birthYear]
RetryIssues(d) == d.birthYear # 0

SearchSettled(outcome, r) ==
    /\ searchCalls > 0
    /\ outcome \in {"valid", "invalid", "rejected"}
    /\ outcome # "rejected" => outcome = OutcomeOf(r)
    /\ searchCalls' = searchCalls - 1
    /\ IF outcome = "valid"
       THEN \* processSuccessfulSearch(result)
            /\ idDetails' = r.idDetails
            /\ holidayResponse' = r.holidayResponse
            /\ searchCount' = r.searchCount
            /\ formattedIdNumber' = r.formattedIdNumber
            /\ IF RetryIssues(r.idDetails)
               THEN /\ holCalls' = BagAdd(holCalls, HolidayCall(r.idDetails))
                    /\ issued' = <<[fn |-> "getHolidaysForYear",
                                    arg |-> r.idDetails.birthYear]>>
               ELSE /\ issued' = <<>>
                    /\ UNCHANGED holCalls
       ELSE /\ issued' = <<>>
            /\ UNCHANGED <<idDetails, holidayResponse, searchCount,
                           formattedIdNumber, holCalls>>
    /\ hasResults' = HasResultsAfter(outcome)
    /\ hasError' = HasErrorAfter(outcome)
    /\ errorMessage' = ErrorMessageAfter(outcome, r)
    /\ isSearching' = IsSearchingAfter(outcome)
    /\ emitted' = SearchToasts(outcome)
    /\ fired' = <<>>
    /\ cancelled' = 0
    /\ searchesDone' = TRUE
    /\ afterReset' = (lastOp = "reset")
    /\ UNCHANGED awaited
    /\ lastOp' = IF outcome = "valid" THEN "searchValid"
                 ELSE IF outcome = "invalid" THEN "searchInvalid"
                 ELSE "searchRejected"
    /\ UNCHANGED <<idNumber, isValidId, isValidating, validationMessage,
                   searchResults, validationTimeout, holidaysOnBirthDate,
                   timers, fmtCalls, swiQueue, connected, burstCalls>>

(***************************************************************************)
(* handleRetryHolidays() after its await.                                  *)
(***************************************************************************)
HolidaysResolved(c, h) ==
    /\ BagIn(c, holCalls)
    /\ h \in HolidayResponses(c.targetYear)
    /\ holCalls' = BagRemove(holCalls, c)
    /\ holidayResponse' = h
    /\ \E west \in BOOLEAN :
           holidaysOnBirthDate' = CheckHolidaysOnBirthDate(idDetails, h, west)
    /\ emitted' = IF h.success THEN <<ToastHolidaysOk>> ELSE <<>>
    /\ fired' = <<>>
    /\ cancelled' = 0
    /\ UNCHANGED <<searchesDone, awaited>>
    /\ afterReset' = FALSE
    /\ lastOp' = "holidaysResolved"
    /\ issued' = <<>>
    /\ UNCHANGED <<idNumber, isValidId, isValidating, isSearching, hasResults,
                   hasError, errorMessage, validationMessage, searchResults,
                   validationTimeout, idDetails, searchCount,
                   formattedIdNumber, timers, fmtCalls, searchCalls, swiQueue,
                   connected, burstCalls>>

\* Variant: a failed retrieval is reported as a failed search.
HolidayFailureSetsError ==
    /\ hasError' = TRUE
    /\ errorMessage' = MsgUnexpected
    /\ UNCHANGED hasResults

\* The catch block: what a failed retrieval does to the flags.
HolidayFailureFlags == UNCHANGED <<hasResults, hasError, errorMessage>>

HolidaysRejected(c) ==
    /\ BagIn(c, holCalls)
    /\ holCalls' = BagRemove(holCalls, c)
    /\ emitted' = <<ToastHolidaysFailed>>
    /\ fired' = <<>>
    /\ cancelled' = 0
    /\ UNCHANGED <<searchesDone, awaited>>
    /\ afterReset' = FALSE
    /\ lastOp' = "holidaysRejected"
    /\ issued' = <<>>
    /\ HolidayFailureFlags
    /\ UNCHANGED <<idNumber, isValidId, isValidating, isSearching,
                   validationMessage, searchResults,
                   validationTimeout, idDetails, holidayResponse, searchCount,
                   formattedIdNumber, holidaysOnBirthDate, timers, fmtCalls,
                   searchCalls, swiQueue, connected, burstCalls>>


(***************************************************************************)
(* errorCallback(error, stack)                                             *)
(***************************************************************************)
ErrorCallback ==
    /\ Quiet /\ connected
    /\ hasError' = TRUE
    /\ errorMessage' = MsgComponent
    /\ isSearching' = FALSE
    /\ isValidating' = FALSE
    /\ emitted' = <<ToastComponent>>
    /\ fired' = <<>>
    /\ cancelled' = 0
    /\ UNCHANGED <<searchesDone, awaited>>
    /\ afterReset' = FALSE
    /\ lastOp' = "errorCallback"
    /\ issued' = <<>>
    /\ UNCHANGED <<idNumber, isValidId, hasResults, validationMessage,
                   searchResults, validationTimeout, idDetails,
                   holidayResponse, searchCount, formattedIdNumber,
                   holidaysOnBirthDate, env, burstCalls>>

(***************************************************************************)
(* reset() -> resetComponent()                                             *)
(***************************************************************************)
\* The values the fields are declared with.
InitialFields ==
    <<TextEmpty, FALSE, FALSE, FALSE, FALSE, FALSE, "", "", EmptyDetails,
      EmptyDetails, EmptyResponse, 0, <<>>, <<>>>>

\* Variant: resetComponent() forgets the timer.
TimersAfterResetKept == Overwritten(timers)

\* The timer table after resetComponent().
TimersAfterReset == Overwritten(ClearedTimers)

ResetComponent ==
    /\ idNumber' = TextEmpty
    /\ isValidId' = FALSE
    /\ isValidating' = FALSE
    /\ isSearching' = FALSE
    /\ hasResults' = FALSE
    /\ hasError' = FALSE
    /\ errorMessage' = ""
    /\ validationMessage' = ""
    /\ searchResults' = EmptyDetails
    /\ idDetails' = EmptyDetails
    /\ holidayResponse' = EmptyResponse
    /\ searchCount' = 0
    /\ formattedIdNumber' = <<>>
    /\ holidaysOnBirthDate' = <<>>
    /\ timers' = TimersAfterReset

Reset ==
    /\ Quiet /\ connected
    /\ ResetComponent
    /\ lastOp' = "reset"
    /\ issued' = <<>>
    /\ emitted' = <<>>
    /\ fired' = <<>>
    /\ cancelled' = Cardinality(timers \ ClearedTimers)
    /\ UNCHANGED <<searchesDone, awaited>>
    /\ afterReset' = FALSE
    /\ UNCHANGED <<validationTimeout, fmtCalls, searchCalls, holCalls,
                   swiQueue, connected, burstCalls>>

(***************************************************************************)
(* searchWithId(idNumber)                                                  *)
(***************************************************************************)
\* Up to "await this.performRealtimeValidation()".
SearchWithId(id) ==
    /\ Quiet /\ connected
    /\ MayCall
    /\ idNumber' = id
    /\ fmtCalls' = BagAdd(fmtCalls, [idNumber |-> id, api |-> TRUE])
    /\ lastOp' = "searchWithId"
    /\ issued' = <<[fn |-> "validateIdFormat", arg |-> id]>>
    /\ emitted' = <<>>
    /\ fired' = <<>>
    /\ cancelled' = 0
    /\ UNCHANGED <<searchesDone, awaited>>
    /\ afterReset' = FALSE
    /\ timers' = Overwritten(timers)
    /\ UNCHANGED <<isValidId, isValidating, isSearching, hasResults, hasError,
                   errorMessage, validationMessage, searchResults,
                   validationTimeout, idDetails, holidayResponse, searchCount,
                   formattedIdNumber, holidaysOnBirthDate, searchCalls,
                   holCalls, swiQueue, connected, burstCalls>>

\* After that await: "if (this.isValidId) await this.handleSearch()".  The
\* continuation is a microtask of its own, queued when the validation's
\* promise resolves; continuations of calls that settled in the same task
\* may run before it.
SearchWithIdContinue ==
    /\ swiQueue > 0
    /\ swiQueue' = swiQueue - 1
    /\ awaited' = Tail(awaited)
    /\ IF isValidId
       THEN SearchBody
       ELSE /\ lastOp' = "searchWithIdDone"
            /\ issued' = <<>>
            /\ UNCHANGED <<isSearching, hasError, hasResults, errorMessage,
                           searchCalls>>
    /\ SearchFrame

(***************************************************************************)
(* disconnectedCallback()                                                  *)
(***************************************************************************)
\* Variant: teardown leaves the timer alone.
TimersAfterDisconnectKept == timers

\* The timer table after "if (this.validationTimeout) clearTimeout(...)".
TimersAfterDisconnect == ClearedTimers

DisconnectedCallback ==
    /\ Quiet /\ connected
    /\ connected' = FALSE
    /\ timers' = TimersAfterDisconnect
    /\ lastOp' = "disconnectedCallback"
    /\ issued' = <<>>
    /\ emitted' = <<>>
    /\ fired' = <<>>
    /\ cancelled' = Cardinality(timers \ ClearedTimers)
    /\ UNCHANGED <<searchesDone, awaited>>
    /\ afterReset' = FALSE
    /\ UNCHANGED <<fields, validationTimeout, fmtCalls, searchCalls, holCalls,
                   swiQueue, burstCalls>>

(***************************************************************************)
(* The specification.                                                      *)
(***************************************************************************)
FormatOutcomes == {"true", "false", "rejected"}

Next ==
    \/ \E text \in Texts : HandleInputChange(text)
    \/ Tick
    \/ \E t \in timers : TimerFire(t)
    \/ \E c \in BagToSet(fmtCalls), o \in FormatOutcomes : FormatDone(c, o)
    \/ HandleSearch
    \/ HandleKeyDown
    \/ \E r \in SearchResults :
           \E o \in {OutcomeOf(r), "rejected"} : SearchSettled(o, r)
    \/ \E c \in BagToSet(holCalls) :
           \E h \in HolidayResponses(c.targetYear) : HolidaysResolved(c, h)
    \/ \E c \in BagToSet(holCalls) : HolidaysRejected(c)
    \/ ErrorCallback
    \/ Reset
    \/ \E id \in ApiTexts : SearchWithId(id)
    \/ SearchWithIdContinue
    \/ DisconnectedCallback

Spec == Init /\ [][Next]_vars


(***************************************************************************)
(* Properties.                                                             *)
(***************************************************************************)
SearchOps == {"searchValid", "searchInvalid", "searchRejected"}
CallState == <<fmtCalls, searchCalls, holCalls>>

\* C1: at most one of hasResults and hasError is true in every reachable
\* state, and both are false as long as no validateAndSearch call has
\* completed.
C1_ExclusiveFlags ==
    /\ ~(hasResults /\ hasError)
    /\ ~searchesDone => (~hasResults /\ ~hasError)

\* C2: a handleSearch invocation made while isSearching is true (from the
\* button, the Enter key or searchWithId) issues no validateAndSearch call
\* and changes no field, no timer and no call in flight.
C2_SearchWhileSearchingIsNoop ==
    [][(isSearching /\ (HandleSearch \/ HandleKeyDown
                          \/ (SearchWithIdContinue /\ isValidId)))
       => (UNCHANGED <<fields, validationTimeout, timers, CallState>>
           /\ issued' = <<>>)]_vars

\* Two invocations in succession, the first still in flight: one call.
C2_Witness ==
    /\ lastOp = "handleSearchNoop"
    /\ isValidId /\ isSearching
    /\ searchCalls = 1

\* C3: when the validateAndSearch call of a handleSearch settles, on each
\* of the three outcomes (valid, invalid, rejected), the continuation leaves
\* isSearching false.
C3_SettledClearsIsSearching ==
    lastOp \in SearchOps => ~isSearching

C3_Witness ==
    /\ lastOp = "searchRejected"
    /\ ~isSearching
    /\ emitted = <<ToastSearchFailed>>

\* C4: at most one debounce timer is pending, and it is the one the last
\* scheduling handleInputChange holds the handle of: every earlier one has
\* been cancelled.
C4_OneTimerPending ==
    /\ Cardinality(timers) <= 1
    /\ \A t \in timers : t.handle = validationTimeout /\ t.latest

\* An input arrived while a timer was pending and replaced it.
C4_Witness ==
    /\ lastOp = "handleInputChange"
    /\ cancelled = 1
    /\ \E t \in timers : t.nth = 2 /\ t.remaining = DebounceDelay

\* C5: a burst of handleInputChange events, each arriving before the delay
\* of the one before has expired, makes at most one validateIdFormat call;
\* the call is made by the timer of the last event, whose text has at least
\* 10 characters, and with that text as long as nothing but input events
\* has written idNumber.
C5_BurstMakesOneCall ==
    /\ burstCalls <= 1
    /\ lastOp = "timerFired" =>
          /\ Len(fired) = 1 /\ Len(issued) = 1
          /\ fired[1].latest
          /\ Len(fired[1].text) >= MinValidateLen
          /\ issued[1].fn = "validateIdFormat"
          /\ fired[1].clean => issued[1].arg = fired[1].text

\* The timer of the second event of a burst has fired.
C5_Witness ==
    /\ lastOp = "timerFired"
    /\ fired[1].nth = 2 /\ fired[1].clean
    /\ burstCalls = 1
    /\ issued[1].arg = fired[1].text

\* C6: immediately after reset() every field has its initial value and no
\* debounce timer is pending, so none that was pending before can fire.
C6_ResetRestoresInitialState ==
    lastOp = "reset" => (fields = InitialFields /\ timers = {})

\* reset() has cancelled a pending timer.
C6_Witness ==
    /\ lastOp = "reset"
    /\ cancelled = 1
    /\ fields = InitialFields /\ timers = {}

\* C7: after handleInputChange with a text shorter than 10 characters,
\* isValidating and isValidId are false, no debounce timer is pending and no
\* validateIdFormat call was issued.
C7_ShortInputNoValidation ==
    (lastOp = "handleInputChange" /\ Len(idNumber) < MinValidateLen) =>
        (~isValidating /\ ~isValidId /\ timers = {} /\ issued = <<>>)

\* A short text typed while a check of a longer one was still scheduled.
C7_Witness ==
    /\ lastOp = "handleInputChange"
    /\ Len(idNumber) = 9
    /\ cancelled = 1
    /\ ~isValidating /\ timers = {}

\* C8: after handleInputChange with a text of 10 to 12 characters the
\* message 'ID number must be 13 digits long' is shown and a debounced
\* format check is scheduled.
C8_TooShortMessageShown ==
    (lastOp = "handleInputChange" /\ Len(idNumber) \in 10..12) =>
        /\ validationMessage = MsgTooShort
        /\ \E t \in timers :
              t.handle = validationTimeout /\ t.remaining = DebounceDelay

\* C9: when the validateAndSearch call of a handleSearch rejects, the
\* resulting state has hasError, not hasResults, the generic message, not
\* isSearching, and exactly one notification was emitted.
C9_RejectedSearchState ==
    lastOp = "searchRejected" =>
        /\ hasError /\ ~hasResults
        /\ errorMessage = MsgUnexpected
        /\ ~isSearching
        /\ Len(emitted) = 1

\* C10: a rejected getHolidaysForYear call leaves hasResults, hasError,
\* holidayResponse and holidaysOnBirthDate as they were (after a successful
\* search: true and false) and emits one failure notification.
C10_FailedRetrievalKeepsResults ==
    [][(\E c \in BagToSet(holCalls) : HolidaysRejected(c))
       => /\ UNCHANGED <<hasResults, hasError, holidayResponse,
                         holidaysOnBirthDate>>
          /\ emitted' = <<ToastHolidaysFailed>>]_vars

C10_Witness ==
    /\ lastOp = "holidaysRejected"
    /\ hasResults /\ ~hasError
    /\ idDetails.birthYear # 0
    /\ emitted = <<ToastHolidaysFailed>>

\* C11: when validateAndSearch resolves with isValid=true and an identity
\* record with a known birthYear, the search ends with hasResults and not
\* hasError, and exactly one getHolidaysForYear call is issued, for the
\* committed idDetails.birthYear; with birthYear absent none is issued.
C11_ValidSearchOutcome ==
    lastOp = "searchValid" =>
        /\ idDetails.birthYear # 0 =>
              /\ hasResults /\ ~hasError
              /\ issued = <<[fn |-> "getHolidaysForYear",
                             arg |-> idDetails.birthYear]>>
        /\ idDetails.birthYear = 0 => issued = <<>>

\* C12: the continuation of searchWithId issues a validateAndSearch call
\* only if the validateIdFormat call it awaited returned true; when that
\* call returned false or rejected it issues none and leaves hasResults and
\* hasError as they were.
C12_SearchOnlyAfterOwnCheck ==
    [][SearchWithIdContinue =>
          /\ searchCalls' > searchCalls => Head(awaited) = "true"
          /\ Head(awaited) # "true" =>
                /\ searchCalls' = searchCalls
                /\ issued' = <<>>
                /\ UNCHANGED <<hasResults, hasError>>]_vars

\* C13: after disconnectedCallback no debounce timer is pending and none
\* fires: the timer that was pending at teardown starts no validateIdFormat
\* call and changes no state.
C13_NoTimerAfterTeardown ==
    ~connected =>
        /\ timers = {}
        /\ lastOp # "timerFired"
        /\ \A i \in 1..Len(issued) : issued[i].fn # "validateIdFormat"

\* Teardown has cancelled a pending timer.
C13_Witness ==
    /\ lastOp = "disconnectedCallback"
    /\ ~connected
    /\ cancelled = 1
    /\ timers = {}

\* The cross-reference as the specification defines it: the holidays dated
\* birthYear-MM-DD, MM and DD being those of dateOfBirth; empty when the
\* date of birth or the holiday list is absent.
CrossReference(details, response) ==
    IF details.dateOfBirth = NoDate \/ response.holidays = <<>>
    THEN <<>>
    ELSE LET OnBirthDate(holidayDate) ==
                 holidayDate = <<details.birthYear, details.dateOfBirth[2],
                                 details.dateOfBirth[3]>>
         IN  SelectSeq(response.holidays, OnBirthDate)

\* C14: whenever no getHolidaysForYear call is outstanding,
\* holidaysOnBirthDate is the cross-reference of the current idDetails and
\* holidayResponse.
C14_CrossReferenceIsPure ==
    BagCardinality(holCalls) = 0 =>
        holidaysOnBirthDate = CrossReference(idDetails, holidayResponse)

\* A step that applies the outcome of a getHolidaysForYear call.
HolidayOutcomeStep ==
    \E c \in BagToSet(holCalls) :
        \/ HolidaysRejected(c)
        \/ \E h \in HolidayResponses(c.targetYear) : HolidaysResolved(c, h)

\* C15: a getHolidaysForYear call is issued only by the step in which a
\* validateAndSearch call resolves with isValid=true, and that step already
\* clears isSearching and sets hasResults; when the outcome of the holiday
\* call is applied later, isSearching can only be true for another search,
\* one whose validateAndSearch call is still in flight.
C15_HolidaysAfterSearchCompletes ==
    [][/\ BagCardinality(holCalls') > BagCardinality(holCalls) =>
              /\ lastOp' = "searchValid"
              /\ searchCalls' = searchCalls - 1
              /\ ~isSearching' /\ hasResults'
       /\ (HolidayOutcomeStep /\ isSearching) => searchCalls > 0]_vars

\* A holiday result has been applied after its search completed.
C15_Witness ==
    /\ lastOp = "holidaysResolved"
    /\ holidayResponse.success
    /\ ~isSearching /\ hasResults
    /\ searchCalls = 0

\* C16: isSearching is true whenever a validateAndSearch call is in
\* flight, and at most one such call is in flight.
C16_SearchingWhileInFlight ==
    /\ searchCalls > 0 => isSearching
    /\ searchCalls <= 1

\* C17: reset() does not cancel a validateAndSearch call in flight: when
\* the call resolves with isValid=true right after reset(), its completion
\* commits the result's idDetails, holidayResponse, searchCount and
\* formattedIdNumber and sets hasResults, while idNumber is still ''.
C17_LateSuccessAfterReset ==
    (lastOp = "searchValid" /\ afterReset) =>
        /\ hasResults /\ ~isSearching
        /\ idNumber = TextEmpty
        /\ \E r \in SearchResults :
              /\ r.isValid
              /\ idDetails = r.idDetails
              /\ holidayResponse = r.holidayResponse
              /\ searchCount = r.searchCount
              /\ formattedIdNumber = r.formattedIdNumber
        /\ idDetails.birthYear # 0 =>
              issued = <<[fn |-> "getHolidaysForYear",
                          arg |-> idDetails.birthYear]>>

\* Results are shown for an empty input after a reset.
C17_Witness ==
    /\ lastOp = "searchValid" /\ afterReset
    /\ hasResults
    /\ idNumber = TextEmpty
    /\ idDetails = Details1980
    /\ searchCount = 1

\* C18: isValidId stands for a true verdict of the last completed
\* validateIdFormat call on the current idNumber: a completion that marks
\* the input valid belongs to a call made with the current idNumber, and a
\* step that changes idNumber leaves isValidId false (so that every
\* validateAndSearch call, which isValidId guards, is made with a confirmed
\* idNumber).
C18_ValidMeansCurrentInputChecked ==
    [][/\ \A c \in BagToSet(fmtCalls) :
              FormatDone(c, "true") => c.idNumber = idNumber
       /\ idNumber' # idNumber => ~isValidId']_vars

\* C19: errorMessage is non-empty exactly when hasError is true.
C19_ErrorMessageIffHasError ==
    (errorMessage # "") <=> hasError

\* A search was answered "not valid" without a message of the server's.
C19_Witness ==
    /\ lastOp = "searchInvalid"
    /\ hasError
    /\ errorMessage = MsgInvalidId

\* C20: once every remote call has settled and a birth year is committed,
\* holidayResponse holds holidays of that year only: it is not the result
\* of a retrieval made for another search's year.
C20_HolidayResponseOfCommittedYear ==
    (InFlight = 0 /\ idDetails.birthYear # 0) =>
        \A i \in 1..Len(holidayResponse.holidays) :
            holidayResponse.holidays[i][1] = idDetails.birthYear

====
